---- MODULE Spec2Model ----
(***************************************************************************)
(* Patient Data API (src/app.py): a dataset loaded once at import time and *)
(* ten read-only request handlers over it.                                 *)
(*                                                                         *)
(* Python values are tagged records: t is the Python type, v the payload.  *)
(* A str carries a TLA+ string (compared exactly, case-sensitively); a     *)
(* dict carries a function from its keys; a list carries a sequence.  JSON *)
(* null is Python None.  Raise stands for an exception propagating out of  *)
(* an expression.  Handlers are `async def` bodies without any await, so   *)
(* the event loop runs each one to completion: one action per handler.     *)
(***************************************************************************)
EXTENDS Integers, Sequences, FiniteSets, TLC

VARIABLES file, pc, patient_data, req, resp

vars == <<file, pc, patient_data, req, resp>>

\* ------------------------------------------------------------ Python values

None == [t |-> "none"]

Raise == [t |-> "raise"]

Str(s) == [t |-> "str", v |-> s]

Num(n) == [t |-> "int", v |-> n]

Bool(b) == [t |-> "bool", v |-> b]

List(s) == [t |-> "list", v |-> s]

Dict(f) == [t |-> "dict", v |-> f]

\* bool(x): None, "", [], {} are falsy
Truthy(x) ==
    CASE x.t = "none" -> FALSE
      [] x.t = "str"  -> x.v # ""
      [] x.t = "list" -> Len(x.v) > 0
      [] x.t = "dict" -> DOMAIN x.v # {}
      [] x.t = "bool" -> x.v
      [] x.t = "int"  -> x.v # 0

\* d.get(k): the default left out, so a missing key gives None
PyGetNoDefault(d, k, default) ==
    IF d.t # "dict" THEN Raise
    ELSE IF k \in DOMAIN d.v THEN d.v[k] ELSE None

\* d.get(k, default): AttributeError unless d is a dict
PyGet(d, k, default) ==
    IF d.t # "dict" THEN Raise
    ELSE IF k \in DOMAIN d.v THEN d.v[k] ELSE default

\* len(x): TypeError on None
PyLen(x) ==
    CASE x.t = "list" -> Num(Len(x.v))
      [] x.t = "dict" -> Num(Cardinality(DOMAIN x.v))
      [] OTHER        -> Raise

\* ------------------------------------------------------------------ strings

\* The characters of the strings that reach lower() and `in`: the name
\* fields of the datasets and the name filters of the requests.
CharsOf(s) ==
    CASE s = ""      -> <<>>
      [] s = "Anna"  -> <<"A", "n", "n", "a">>
      [] s = "Diana" -> <<"D", "i", "a", "n", "a">>
      [] s = "Lee"   -> <<"L", "e", "e">>
      [] s = "Dean"  -> <<"D", "e", "a", "n">>
      [] s = "an"    -> <<"a", "n">>
      [] s = "DI"    -> <<"D", "I">>
      [] s = "EE"    -> <<"E", "E">>

\* lower() left out: the comparison stays case-sensitive
LowerCharIdentity(c) == c

\* str.lower() on one character
LowerChar(c) ==
    CASE c = "A" -> "a"
      [] c = "D" -> "d"
      [] c = "E" -> "e"
      [] c = "I" -> "i"
      [] c = "L" -> "l"
      [] c = "N" -> "n"
      [] OTHER   -> c

\* x.lower(): AttributeError unless x is a str; the result is kept as its
\* characters, the only use made of it being `in`
PyLower(x) ==
    IF x.t # "str" THEN Raise
    ELSE LET cs == CharsOf(x.v) IN
         [t |-> "chars", v |-> [i \in DOMAIN cs |-> LowerChar(cs[i])]]

\* a in b, for two strs: a occurs in b as a contiguous run of characters
PyIn(a, b) ==
    \E i \in 0..(Len(b.v) - Len(a.v)) :
        \A j \in 1..Len(a.v) : b.v[i + j] = a.v[j]

\* a fixed message, the ID not interpolated
NotFoundDetailNoId(patient_id) == Str("Patient not found")

\* f"Patient with ID {patient_id} not found"
NotFoundDetail(patient_id) ==
    Str("Patient with ID " \o patient_id.v \o " not found")

\* ---------------------------------------------------------------- responses

NoResponse == [status |-> 0, body |-> None]

\* a returned dict, serialised with HTTP 200
Ok(body) == [status |-> 200, body |-> Dict(body)]

\* raise HTTPException(status_code=404, detail=...)
NotFound(patient_id) ==
    [status |-> 404, body |-> Dict([detail |-> NotFoundDetail(patient_id)])]

\* an exception leaving the handler: the server answers 500
ServerError == [status |-> 500, body |-> None]

NoRequest ==
    [op |-> "none", patient_id |-> None, firstName |-> None,
     lastName |-> None, type |-> None, testType |-> None]

Request(op, patient_id, firstName, lastName, type, testType) ==
    [op |-> op, patient_id |-> patient_id, firstName |-> firstName,
     lastName |-> lastName, type |-> type, testType |-> testType]

\* ------------------------------------------------------------- the data file

\* Largest number of records in a dataset of the model
MaxPatients == 2

Appt(id) == Dict([appointmentId |-> Str(id)])

Test(id, ty) == Dict([testId |-> Str(id), testType |-> Str(ty)])

\* Record bodies (everything but patientId) that follow the data model:
\* every field is absent or holds a value of its type.
Bare == <<>>

Full ==
    [personalInformation |-> Dict([firstName |-> Str("Anna"), lastName |-> Str("Lee")]),
     appointments |-> Dict([upcoming |-> List(<<Appt("A1"), Appt("A2")>>),
                            recent |-> List(<<>>),
                            past |-> List(<<Appt("A3")>>)]),
     testResults |-> List(<<Test("T1", "Laboratory"), Test("T2", "Radiology"),
                            Test("T3", "Laboratory")>>),
     medicalHistory |-> Dict([conditions |-> List(<<Str("asthma")>>)]),
     insurance |-> Dict([provider |-> Str("Acme")]),
     careProviders |-> List(<<Dict([name |-> Str("Dr. Ray")])>>),
     procedures |-> List(<<Dict([name |-> Str("MRI")])>>)]

Part ==
    [personalInformation |-> Dict([firstName |-> Str("Diana")]),
     appointments |-> Dict([upcoming |-> List(<<Appt("A4")>>)]),
     testResults |-> List(<<Dict([testId |-> Str("T4")]), Test("T5", "Radiology")>>),
     medicalHistory |-> Dict(<<>>),
     insurance |-> Dict(<<>>),
     careProviders |-> List(<<>>),
     procedures |-> List(<<>>)]

LastOnly ==
    [personalInformation |-> Dict([lastName |-> Str("Dean")]),
     appointments |-> Dict(<<>>),
     testResults |-> List(<<>>)]

EmptyInfo ==
    [personalInformation |-> Dict(<<>>),
     testResults |-> List(<<Test("T6", "laboratory")>>),
     procedures |-> List(<<Dict([name |-> Str("CT")])>>)]

Other ==
    [personalInformation |-> Dict([firstName |-> Str("Diana"), lastName |-> Str("Dean")]),
     appointments |-> Dict([past |-> List(<<Appt("A5")>>)]),
     insurance |-> Dict([provider |-> Str("Zen")])]

\* Record bodies json.load also produces: null where the data model has a value
NullFields ==
    [personalInformation |-> Dict([firstName |-> None, lastName |-> Str("Lee")]),
     appointments |-> None,
     testResults |-> None,
     medicalHistory |-> None]

NullDeep ==
    [personalInformation |-> None,
     appointments |-> Dict([upcoming |-> None]),
     testResults |-> List(<<None, Test("T7", "Laboratory")>>)]

\* patientId is absent, or one of two strings differing in letter case only;
\* nothing makes it unique
NoId == <<>>

IdP1 == [patientId |-> Str("P1")]

Idp1 == [patientId |-> Str("p1")]

\* The patient records of the datasets that follow the data model
Patients ==
    {Dict(IdP1 @@ Full), Dict(IdP1 @@ Part), Dict(IdP1 @@ Bare),
     Dict(Idp1 @@ Other), Dict(Idp1 @@ EmptyInfo), Dict(Idp1 @@ Full),
     Dict(NoId @@ LastOnly), Dict(NoId @@ Bare)}

\* The patient records of the datasets of any shape
LoosePatients ==
    {Dict(IdP1 @@ Full), Dict(IdP1 @@ Bare), Dict(Idp1 @@ Part),
     Dict(IdP1 @@ NullFields), Dict(Idp1 @@ NullDeep),
     Dict([patientId |-> None] @@ Full)}

SeqsUpTo(S, n) == UNION {[1..k -> S] : k \in 0..n}

\* What DATA_PATH holds when the module is imported
NoFile == [kind |-> "missing", doc |-> None]

InvalidJson == [kind |-> "invalid_json", doc |-> None]

Undecodable == [kind |-> "undecodable", doc |-> None]

ValidFile(doc) == [kind |-> "valid", doc |-> doc]

Documents(pool) ==
    {Dict(<<>>)} \cup {Dict([patients |-> List(ds)]) : ds \in SeqsUpTo(pool, MaxPatients)}

Files == {NoFile, InvalidJson, Undecodable} \cup {ValidFile(d) : d \in Documents(Patients)}

LooseFiles ==
    {NoFile, InvalidJson, Undecodable}
    \cup {ValidFile(d) : d \in Documents(LoosePatients) \cup {Dict([patients |-> None])}}

\* ------------------------------------------------------------------- loader

\* app.py 30-41: the module-level try/except.  FileNotFoundError and
\* json.JSONDecodeError are caught; the UnicodeDecodeError that reading
\* bytes that are not UTF-8 raises is neither, so the import fails.
Load ==
    /\ pc = "start"
    /\ CASE file.kind = "valid" ->
              /\ patient_data' = file.doc
              /\ pc' = "serving"
         [] file.kind \in {"missing", "invalid_json"} ->
              /\ patient_data' = Dict([patients |-> List(<<>>)])
              /\ pc' = "serving"
         [] file.kind = "undecodable" ->
              /\ patient_data' = patient_data
              /\ pc' = "crashed"
    /\ UNCHANGED <<file, req, resp>>

\* patient_data.get("patients", [])
patients == PyGet(patient_data, "patients", List(<<>>))

\* first index from i on whose record has this patientId, 0 when there is
\* none, -1 when a record on the way is no dict
RECURSIVE Scan(_, _, _)
Scan(ps, i, patient_id) ==
    IF i > Len(ps) THEN 0
    ELSE LET id == PyGet(ps[i], "patientId", None) IN
         IF id = Raise THEN -1
         ELSE IF id = patient_id THEN i
         ELSE Scan(ps, i + 1, patient_id)

\* last index whose record has this patientId, 0 when there is none, -1 when
\* a record is no dict
RECURSIVE ScanLast(_, _, _)
ScanLast(ps, i, patient_id) ==
    IF i = 0 THEN 0
    ELSE LET id == PyGet(ps[i], "patientId", None) IN
         IF id = Raise THEN -1
         ELSE IF id = patient_id THEN i
         ELSE ScanLast(ps, i - 1, patient_id)

\* the scan without its early return: the last match wins
find_patient_by_id_last(patient_id) ==
    IF patients.t # "list" THEN Raise
    ELSE LET i == ScanLast(patients.v, Len(patients.v), patient_id) IN
         IF i = -1 THEN Raise ELSE IF i = 0 THEN None ELSE patients.v[i]

\* find_patient_by_id: the first match, None without one; iterating None
\* raises TypeError
find_patient_by_id(patient_id) ==
    IF patients.t # "list" THEN Raise
    ELSE LET i == Scan(patients.v, 1, patient_id) IN
         IF i = -1 THEN Raise ELSE IF i = 0 THEN None ELSE patients.v[i]

\* ----------------------------------------------------------------- handlers

\* Path parameters of the requests
PathIds == {Str("P1"), Str("p1")}

\* Optional[str] query parameters: None when not given, "" for `?name=`
FirstNameParams == {None, Str(""), Str("an"), Str("DI")}

LastNameParams == {None, Str(""), Str("EE")}

TypeParams ==
    {None, Str(""), Str("upcoming"), Str("recent"), Str("past"), Str("Upcoming")}

TestTypeParams == {None, Str(""), Str("Laboratory"), Str("Radiology")}

\* A handler runs to its return or raise; nothing else changes
Respond(r, out) ==
    /\ pc = "serving"
    /\ req' = r
    /\ resp' = out
    /\ UNCHANGED <<file, pc, patient_data>>

\* the elements a comprehension iterates over (none when it raises at once)
Elems(results) == IF results.t = "list" THEN results.v ELSE <<>>

\* [x for x in results if <condition>], keeps[i] being the condition's value
\* on the i-th element: raises when results is None or when the condition
\* raises on an element
Comprehension(results, keeps) ==
    IF results.t # "list" THEN Raise
    ELSE IF \E i \in DOMAIN keeps : keeps[i] = Raise THEN Raise
    ELSE LET kept == SelectSeq([i \in DOMAIN keeps |-> i], LAMBDA i : keeps[i].v) IN
         List([k \in DOMAIN kept |-> results.v[kept[k]]])

\* app.py 54-72
root ==
    Respond(Request("root", None, None, None, None, None),
            Ok([message |-> Str("Patient Data API"), version |-> Str("1.0.0")]))

\* app.py 75-78
health_check ==
    Respond(Request("health_check", None, None, None, None, None),
            Ok([status |-> Str("ok"), message |-> Str("Patient API is running")]))

\* app.py 81-88
get_all_patients ==
    Respond(Request("get_all_patients", None, None, None, None, None),
            LET count == IF patients = Raise THEN Raise ELSE PyLen(patients) IN
            IF count = Raise THEN ServerError
            ELSE Ok([success |-> Bool(TRUE), count |-> count, patients |-> patients]))

\* app.py 91-105
get_patient_by_id(patient_id) ==
    Respond(Request("get_patient_by_id", patient_id, None, None, None, None),
            LET patient == find_patient_by_id(patient_id) IN
            IF patient = Raise THEN ServerError
            ELSE IF ~Truthy(patient) THEN NotFound(patient_id)
            ELSE Ok([success |-> Bool(TRUE), patient |-> patient]))

\* name.lower() in p.get("personalInformation", {}).get(field, "").lower()
NameTest(name, p, field) ==
    LET needle == PyLower(name)
        info   == PyGet(p, "personalInformation", Dict(<<>>))
        value  == IF info = Raise THEN Raise ELSE PyGet(info, field, Str(""))
        hay    == IF value = Raise THEN Raise ELSE PyLower(value)
    IN  IF needle = Raise \/ hay = Raise THEN Raise ELSE Bool(PyIn(needle, hay))

\* app.py 114-126: the two filters, each applied when its parameter is truthy
SearchResults(firstName, lastName) ==
    LET r0 == patients
        r1 == IF Truthy(firstName) /\ r0 # Raise
              THEN Comprehension(r0, [i \in DOMAIN Elems(r0) |->
                                          NameTest(firstName, Elems(r0)[i], "firstName")])
              ELSE r0
        r2 == IF Truthy(lastName) /\ r1 # Raise
              THEN Comprehension(r1, [i \in DOMAIN Elems(r1) |->
                                          NameTest(lastName, Elems(r1)[i], "lastName")])
              ELSE r1
    IN  r2

\* the filtered list stored back into the module-level dataset
search_patients_by_name_writeback(firstName, lastName) ==
    LET results == SearchResults(firstName, lastName)
        count   == IF results = Raise THEN Raise ELSE PyLen(results)
    IN  /\ pc = "serving"
        /\ req' = Request("search_patients_by_name", None, firstName, lastName, None, None)
        /\ resp' = IF count = Raise THEN ServerError
                   ELSE Ok([success |-> Bool(TRUE), count |-> count, patients |-> results])
        /\ patient_data' = IF count = Raise THEN patient_data
                           ELSE Dict([patients |-> results])
        /\ UNCHANGED <<file, pc>>

\* app.py 108-132
search_patients_by_name(firstName, lastName) ==
    Respond(Request("search_patients_by_name", None, firstName, lastName, None, None),
            LET results == SearchResults(firstName, lastName)
                count   == IF results = Raise THEN Raise ELSE PyLen(results)
            IN  IF count = Raise THEN ServerError
                ELSE Ok([success |-> Bool(TRUE), count |-> count, patients |-> results]))

\* the literal list with one bucket name missing
AppointmentTypesNoRecent == {"upcoming", "past"}

\* app.py 151: the literal list ["upcoming", "recent", "past"]
AppointmentTypes == {"upcoming", "recent", "past"}

\* app.py 135-161
get_patient_appointments(patient_id, type) ==
    Respond(Request("get_patient_appointments", patient_id, None, None, type, None),
            LET patient == find_patient_by_id(patient_id) IN
            IF patient = Raise THEN ServerError
            ELSE IF ~Truthy(patient) THEN NotFound(patient_id)
            ELSE LET appointments == PyGet(patient, "appointments", Dict(<<>>)) IN
                 IF Truthy(type) /\ type.v \in AppointmentTypes
                 THEN LET bucket == PyGet(appointments, type.v, List(<<>>)) IN
                      IF bucket = Raise THEN ServerError
                      ELSE Ok([success |-> Bool(TRUE), type |-> type,
                               appointments |-> bucket])
                 ELSE Ok([success |-> Bool(TRUE), appointments |-> appointments]))

\* the comparison made on another key than the entries carry
TestTypeIsWrongKey(test, testType) ==
    LET ty == PyGet(test, "type", None) IN
    IF ty = Raise THEN Raise ELSE Bool(ty = testType)

\* test.get("testType") == testType
TestTypeIs(test, testType) ==
    LET ty == PyGet(test, "testType", None) IN
    IF ty = Raise THEN Raise ELSE Bool(ty = testType)

\* app.py 178-181
TestResults(patient, testType) ==
    LET results == PyGet(patient, "testResults", List(<<>>)) IN
    IF Truthy(testType)
    THEN Comprehension(results, [i \in DOMAIN Elems(results) |->
                                    TestTypeIs(Elems(results)[i], testType)])
    ELSE results

\* app.py 164-187
get_patient_test_results(patient_id, testType) ==
    Respond(Request("get_patient_test_results", patient_id, None, None, None, testType),
            LET patient == find_patient_by_id(patient_id) IN
            IF patient = Raise THEN ServerError
            ELSE IF ~Truthy(patient) THEN NotFound(patient_id)
            ELSE LET results == TestResults(patient, testType)
                     count   == IF results = Raise THEN Raise ELSE PyLen(results)
                 IN  IF count = Raise THEN ServerError
                     ELSE Ok([success |-> Bool(TRUE), count |-> count,
                              testResults |-> results]))

\* app.py 190-204
get_patient_medical_history(patient_id) ==
    Respond(Request("get_patient_medical_history", patient_id, None, None, None, None),
            LET patient == find_patient_by_id(patient_id) IN
            IF patient = Raise THEN ServerError
            ELSE IF ~Truthy(patient) THEN NotFound(patient_id)
            ELSE Ok([success |-> Bool(TRUE),
                     medicalHistory |-> PyGet(patient, "medicalHistory", Dict(<<>>))]))

\* app.py 207-221
get_patient_insurance(patient_id) ==
    Respond(Request("get_patient_insurance", patient_id, None, None, None, None),
            LET patient == find_patient_by_id(patient_id) IN
            IF patient = Raise THEN ServerError
            ELSE IF ~Truthy(patient) THEN NotFound(patient_id)
            ELSE Ok([success |-> Bool(TRUE),
                     insurance |-> PyGet(patient, "insurance", Dict(<<>>))]))

\* app.py 224-238
get_patient_care_providers(patient_id) ==
    Respond(Request("get_patient_care_providers", patient_id, None, None, None, None),
            LET patient == find_patient_by_id(patient_id) IN
            IF patient = Raise THEN ServerError
            ELSE IF ~Truthy(patient) THEN NotFound(patient_id)
            ELSE Ok([success |-> Bool(TRUE),
                     careProviders |-> PyGet(patient, "careProviders", List(<<>>))]))

\* app.py 241-255
get_patient_procedures(patient_id) ==
    Respond(Request("get_patient_procedures", patient_id, None, None, None, None),
            LET patient == find_patient_by_id(patient_id) IN
            IF patient = Raise THEN ServerError
            ELSE IF ~Truthy(patient) THEN NotFound(patient_id)
            ELSE Ok([success |-> Bool(TRUE),
                     procedures |-> PyGet(patient, "procedures", List(<<>>))]))

\* ------------------------------------------------------------ specifications

Serve ==
    \/ root
    \/ health_check
    \/ get_all_patients
    \/ \E patient_id \in PathIds : get_patient_by_id(patient_id)
    \/ \E firstName \in FirstNameParams, lastName \in LastNameParams :
           search_patients_by_name(firstName, lastName)
    \/ \E patient_id \in PathIds, type \in TypeParams :
           get_patient_appointments(patient_id, type)
    \/ \E patient_id \in PathIds, testType \in TestTypeParams :
           get_patient_test_results(patient_id, testType)
    \/ \E patient_id \in PathIds : get_patient_medical_history(patient_id)
    \/ \E patient_id \in PathIds : get_patient_insurance(patient_id)
    \/ \E patient_id \in PathIds : get_patient_care_providers(patient_id)
    \/ \E patient_id \in PathIds : get_patient_procedures(patient_id)

Next == Load \/ Serve

Boot(files) ==
    /\ file \in files
    /\ pc = "start"
    /\ patient_data = None
    /\ req = NoRequest
    /\ resp = NoResponse

\* the data file is absent, unreadable, or a document following the data model
Init == Boot(Files)

Spec == Init /\ [][Next]_vars

\* the data file is absent, unreadable, or any document of the model
InitLoose == Boot(LooseFiles)

SpecLoose == InitLoose /\ [][Next]_vars

\* ------------------------------------------------------- terms of the claims

\* the records of the loaded dataset, in dataset order
Records == IF patients.t = "list" THEN patients.v ELSE <<>>

\* record p carries patientId x
HasId(p, x) == "patientId" \in DOMAIN p.v /\ p.v.patientId = x

\* some record carries patientId x
Known(x) == \E i \in DOMAIN Records : HasId(Records[i], x)

\* position i holds the first record, in dataset order, carrying patientId x
IsFirst(i, x) ==
    /\ HasId(Records[i], x)
    /\ \A j \in 1..(i - 1) : ~HasId(Records[j], x)

FirstRecord(x) == Records[CHOOSE i \in DOMAIN Records : IsFirst(i, x)]

\* a field of a record, or the given value when the record has no such field
FieldOr(p, k, empty) == IF k \in DOMAIN p.v THEN p.v[k] ELSE empty

IdOps ==
    {"get_patient_by_id", "get_patient_appointments", "get_patient_test_results",
     "get_patient_medical_history", "get_patient_insurance",
     "get_patient_care_providers", "get_patient_procedures"}

Success == Bool(TRUE)

\* two characters that are the same letter, whatever their case
SameLetter(a, b) ==
    \/ a = b
    \/ {a, b} \in {{"A", "a"}, {"D", "d"}, {"E", "e"}, {"I", "i"}, {"L", "l"}, {"N", "n"}}

\* needle occurs in hay as a substring, letter case ignored
ContainsIgnoringCase(needle, hay) ==
    LET n == CharsOf(needle)
        h == CharsOf(hay)
    IN  \E k \in 0..(Len(h) - Len(n)) : \A j \in 1..Len(n) : SameLetter(n[j], h[k + j])

\* personalInformation.<field> of a record, "" when absent
NameOf(p, field) ==
    IF "personalInformation" \in DOMAIN p.v /\ field \in DOMAIN p.v.personalInformation.v
    THEN p.v.personalInformation.v[field].v
    ELSE ""

\* a name filter admits a record: not given, or contained in the field
Admits(filter, p, field) ==
    filter = None \/ ContainsIgnoringCase(filter.v, NameOf(p, field))

\* the entries of a testResults list whose testType is ty, in order
EntriesOfType(tests, ty) ==
    SelectSeq(tests.v, LAMBDA e : "testType" \in DOMAIN e.v /\ e.v.testType = ty)

\* what the appointments accessor is to return for record p
AppointmentsAnswer(p, type) ==
    LET mapping == FieldOr(p, "appointments", Dict(<<>>)) IN
    IF type \in {Str("upcoming"), Str("recent"), Str("past")}
    THEN Ok([success |-> Success, type |-> type,
             appointments |-> FieldOr(mapping, type.v, List(<<>>))])
    ELSE Ok([success |-> Success, appointments |-> mapping])

\* what the test-results accessor is to return for record p: the entries of
\* the given type when a non-empty testType is given, all entries otherwise
TestResultsAnswer(p, testType) ==
    LET all  == FieldOr(p, "testResults", List(<<>>))
        kept == IF testType \in {None, Str("")} THEN all.v
                ELSE EntriesOfType(all, testType)
    IN  Ok([success |-> Success, count |-> Num(Len(kept)), testResults |-> List(kept)])

\* what an ID-based operation is to return when it answers from record p
AnswerFrom(p, r) ==
    CASE r.op = "get_patient_by_id" ->
            Ok([success |-> Success, patient |-> p])
      [] r.op = "get_patient_appointments" -> AppointmentsAnswer(p, r.type)
      [] r.op = "get_patient_test_results" -> TestResultsAnswer(p, r.testType)
      [] r.op = "get_patient_medical_history" ->
            Ok([success |-> Success,
                medicalHistory |-> FieldOr(p, "medicalHistory", Dict(<<>>))])
      [] r.op = "get_patient_insurance" ->
            Ok([success |-> Success, insurance |-> FieldOr(p, "insurance", Dict(<<>>))])
      [] r.op = "get_patient_care_providers" ->
            Ok([success |-> Success,
                careProviders |-> FieldOr(p, "careProviders", List(<<>>))])
      [] r.op = "get_patient_procedures" ->
            Ok([success |-> Success, procedures |-> FieldOr(p, "procedures", List(<<>>))])

\* -------------------------------------------------------------------- claims

\* C1 as stated: for every record P of the loaded dataset, Get-by-ID called
\* with P's patientId answers with P itself, unchanged.
C1_EveryRecordRoundTrips ==
    \A i \in DOMAIN Records :
        (req.op = "get_patient_by_id" /\ HasId(Records[i], req.patient_id))
            => resp = Ok([success |-> Success, patient |-> Records[i]])

\* C1 as amended: for every record P whose patientId no earlier record
\* carries, Get-by-ID called with P's patientId answers with P itself,
\* unchanged, in every dataset of records the loader produces.
C1_FirstRecordRoundTrips ==
    \A i \in DOMAIN Records :
        (req.op = "get_patient_by_id" /\ IsFirst(i, req.patient_id))
            => resp = Ok([success |-> Success, patient |-> Records[i]])

\* C1 witness: Get-by-ID has returned the second record of a dataset whose
\* first record carries another patientId.
C1_Witness ==
    /\ req.op = "get_patient_by_id"
    /\ Len(Records) = 2
    /\ IsFirst(2, req.patient_id)
    /\ "patientId" \in DOMAIN Records[1].v
    /\ resp.status = 200
    /\ resp.body.v.patient = Records[2]

\* the literal 404 message for each path parameter of the model
LiteralDetail(x) ==
    CASE x = Str("P1") -> Str("Patient with ID P1 not found")
      [] x = Str("p1") -> Str("Patient with ID p1 not found")

\* C2: Get-by-ID and the six sub-resource accessors answer 404, with detail
\* exactly "Patient with ID x not found", when x equals no record's patientId
\* (exact, case-sensitive), whatever the query parameters, and answer 404 in
\* no other case.
C2_NotFoundExactly ==
    req.op \in IdOps =>
        /\ resp.status = 404 <=> ~Known(req.patient_id)
        /\ resp.status = 404 =>
               resp.body = Dict([detail |-> LiteralDetail(req.patient_id)])

\* C2 witness: the appointments accessor, given a type, has answered 404 for
\* "p1" while the dataset holds a record with patientId "P1".
C2_Witness ==
    /\ req.op = "get_patient_appointments"
    /\ req.patient_id = Str("p1")
    /\ req.type = Str("upcoming")
    /\ Known(Str("P1"))
    /\ resp.status = 404

\* C3: Search-by-name returns exactly the records, in dataset order, whose
\* firstName contains the firstName filter and whose lastName contains the
\* lastName filter, letter case ignored; a filter not given restricts
\* nothing, an absent name field counts as "", and count is the length of
\* the returned list.
C3_SearchByName ==
    req.op = "search_patients_by_name" =>
        LET found == SelectSeq(Records,
                               LAMBDA p : /\ Admits(req.firstName, p, "firstName")
                                          /\ Admits(req.lastName, p, "lastName"))
        IN  resp = Ok([success |-> Success, count |-> Num(Len(found)),
                       patients |-> List(found)])

\* C3 witness: a search with both filters, each in another letter case than
\* the data, has kept the second of two records and dropped the first.
C3_Witness ==
    /\ req.op = "search_patients_by_name"
    /\ req.firstName = Str("an")
    /\ req.lastName = Str("EE")
    /\ Len(Records) = 2
    /\ NameOf(Records[1], "firstName") = "Diana"
    /\ NameOf(Records[1], "lastName") = ""
    /\ resp.status = 200
    /\ resp.body.v.patients = List(<<Records[2]>>)

\* C4: for an existing patient the appointments accessor, given a type that
\* is exactly "upcoming", "recent" or "past", returns that bucket's list ([]
\* without such a bucket) and echoes the type; with no type or any other
\* value it returns the whole appointments mapping and no type field; it
\* never rejects the request.
C4_Appointments ==
    (req.op = "get_patient_appointments" /\ Known(req.patient_id)) =>
        resp = AppointmentsAnswer(FirstRecord(req.patient_id), req.type)

\* C4 witness: type "past" asked of a patient whose appointments hold no
\* "past" bucket: the answer is the empty list with the type echoed.
C4_Witness ==
    /\ req.op = "get_patient_appointments"
    /\ req.type = Str("past")
    /\ Known(req.patient_id)
    /\ "appointments" \in DOMAIN FirstRecord(req.patient_id).v
    /\ "upcoming" \in DOMAIN FirstRecord(req.patient_id).v.appointments.v
    /\ "past" \notin DOMAIN FirstRecord(req.patient_id).v.appointments.v
    /\ resp = Ok([success |-> Success, type |-> Str("past"), appointments |-> List(<<>>)])

\* C5 as stated: for an existing patient the test-results accessor with
\* testType given returns exactly the entries whose testType equals it, in
\* order, and with testType not given returns all entries; count is the
\* length of the returned list.
C5_GivenTestTypeFilters ==
    (req.op = "get_patient_test_results" /\ Known(req.patient_id)) =>
        LET all  == FieldOr(FirstRecord(req.patient_id), "testResults", List(<<>>))
            kept == IF req.testType = None THEN all.v
                    ELSE EntriesOfType(all, req.testType)
        IN  resp = Ok([success |-> Success, count |-> Num(Len(kept)),
                       testResults |-> List(kept)])

\* C5 as amended: for an existing patient the test-results accessor with a
\* non-empty testType given returns exactly the entries whose testType
\* equals it, in order, and with testType not given or empty returns all
\* entries; count is the length of the returned list.
C5_NonEmptyTestTypeFilters ==
    (req.op = "get_patient_test_results" /\ Known(req.patient_id)) =>
        resp = TestResultsAnswer(FirstRecord(req.patient_id), req.testType)

\* C5 witness: testType "Laboratory" has kept the first and third of three
\* entries.
C5_Witness ==
    /\ req.op = "get_patient_test_results"
    /\ req.testType = Str("Laboratory")
    /\ Known(req.patient_id)
    /\ Len(FieldOr(FirstRecord(req.patient_id), "testResults", List(<<>>)).v) = 3
    /\ resp.status = 200
    /\ resp.body.v.count = Num(2)
    /\ resp.body.v.testResults.v =
           <<FirstRecord(req.patient_id).v.testResults.v[1],
             FirstRecord(req.patient_id).v.testResults.v[3]>>

\* C6: with the source file missing or its content corrupt, startup does not
\* fail: the dataset becomes empty, the service answers, and List-all
\* returns {success: true, count: 0, patients: []}.
C6_LoadFailureServesEmpty ==
    (pc # "start" /\ file.kind # "valid") =>
        /\ pc = "serving"
        /\ patient_data = Dict([patients |-> List(<<>>)])
        /\ req.op = "get_all_patients" =>
               resp = Ok([success |-> Success, count |-> Num(0),
                          patients |-> List(<<>>)])

\* C7: once loaded, the dataset is never changed, whatever requests are
\* handled and in whatever order.
C7_DatasetNeverMutated == [][pc = "serving" => patient_data' = patient_data]_vars

\* C7 witness: a search has returned fewer records than the dataset holds,
\* and the dataset is still the document that was loaded.
C7_Witness ==
    /\ pc = "serving"
    /\ req.op = "search_patients_by_name"
    /\ resp.status = 200
    /\ Len(resp.body.v.patients.v) < Len(Records)
    /\ patient_data = file.doc

\* C8: whatever dataset the loader exposes and whatever the request, every
\* handler ends in a success envelope or the 404 not-found error.
C8_NoOtherOutcome ==
    (pc = "serving" /\ req.op # "none") => resp.status \in {200, 404}

\* the empty value of each sub-resource field: what an accessor is said to
\* carry when the matched record lacks the field
EmptyAnswer(r) ==
    CASE r.op = "get_patient_appointments" ->
            [field |-> "appointments", key |-> "appointments", empty |-> Dict(<<>>)]
      [] r.op = "get_patient_test_results" ->
            [field |-> "testResults", key |-> "testResults", empty |-> List(<<>>)]
      [] r.op = "get_patient_medical_history" ->
            [field |-> "medicalHistory", key |-> "medicalHistory", empty |-> Dict(<<>>)]
      [] r.op = "get_patient_insurance" ->
            [field |-> "insurance", key |-> "insurance", empty |-> Dict(<<>>)]
      [] r.op = "get_patient_care_providers" ->
            [field |-> "careProviders", key |-> "careProviders", empty |-> List(<<>>)]
      [] r.op = "get_patient_procedures" ->
            [field |-> "procedures", key |-> "procedures", empty |-> List(<<>>)]

\* the request is for a sub-resource the matched record does not have
FieldAbsent ==
    /\ req.op \in IdOps \ {"get_patient_by_id"}
    /\ Known(req.patient_id)
    /\ EmptyAnswer(req).field \notin DOMAIN FirstRecord(req.patient_id).v

\* C9 as stated: a sub-resource field absent from the matched record yields
\* a success response carrying the field's empty value: {} for
\* appointments, medicalHistory and insurance, [] for testResults (with
\* count 0), careProviders and procedures.
C9_AbsentFieldEmptyValue ==
    FieldAbsent =>
        /\ resp.status = 200
        /\ resp.body.v.success = Success
        /\ resp.body.v[EmptyAnswer(req).key] = EmptyAnswer(req).empty
        /\ req.op = "get_patient_test_results" => resp.body.v.count = Num(0)

\* C9 as amended: the same, except that the appointments accessor asked for
\* a recognised type carries [] (the empty bucket) and not {}.
C9_AbsentFieldEmptyValueOrBucket ==
    FieldAbsent =>
        /\ resp.status = 200
        /\ resp.body.v.success = Success
        /\ resp.body.v[EmptyAnswer(req).key] =
               IF /\ req.op = "get_patient_appointments"
                  /\ req.type \in {Str("upcoming"), Str("recent"), Str("past")}
               THEN List(<<>>)
               ELSE EmptyAnswer(req).empty
        /\ req.op = "get_patient_test_results" => resp.body.v.count = Num(0)

\* C9 witness: test results asked, with a filter, of a record without
\* testResults: success, count 0, an empty list.
C9_Witness ==
    /\ FieldAbsent
    /\ req.op = "get_patient_test_results"
    /\ req.testType = Str("Radiology")
    /\ resp = Ok([success |-> Success, count |-> Num(0), testResults |-> List(<<>>)])

\* several records carry the requested patientId
Duplicated(x) ==
    \E i, j \in DOMAIN Records : i # j /\ HasId(Records[i], x) /\ HasId(Records[j], x)

\* C10: when several records share a patientId, Get-by-ID and every
\* sub-resource accessor answer from the first of them in dataset order,
\* and never from a later one.
C10_FirstMatchWins ==
    (req.op \in IdOps /\ Duplicated(req.patient_id)) =>
        /\ resp = AnswerFrom(FirstRecord(req.patient_id), req)
        /\ \A i \in DOMAIN Records :
               (/\ HasId(Records[i], req.patient_id)
                /\ AnswerFrom(Records[i], req) # AnswerFrom(FirstRecord(req.patient_id), req))
                   => resp # AnswerFrom(Records[i], req)

\* C10 witness: two records share the patientId, the insurance accessor has
\* answered from the first, and the second would have given another answer.
C10_Witness ==
    /\ req.op = "get_patient_insurance"
    /\ Len(Records) = 2
    /\ HasId(Records[1], req.patient_id)
    /\ HasId(Records[2], req.patient_id)
    /\ resp = AnswerFrom(Records[1], req)
    /\ resp # AnswerFrom(Records[2], req)

====
